---- MODULE Spec2Model ----
(***************************************************************************)
(* Model of src/fuzzy.py: the Fuzzy controller object (its five fields),   *)
(* its run() method and the four module-level functions membership_f,      *)
(* fuzzify, fuzzy_matrix and rule_base.                                    *)
(*                                                                         *)
(* Numbers.  Membership degrees are floats in [0,1] in the program; here a *)
(* degree is an integer number of 1/One units and every sampled degree is  *)
(* even, so that interpolation half-way between two samples is exact.      *)
(* Crisp values (error, delta_e) are held in halves: error = 15 stands for *)
(* 7.5.  Domain samples are integers, as np.arange(lo, hi+1, 1) yields.    *)
(* The defuzzified value is the pair <<numerator, denominator>> of the     *)
(* centroid quotient; <<>> stands for an unbound local or for None.        *)
(*                                                                         *)
(* Library.  fuzz.trimf, fuzz.interp_membership, fuzz.defuzz ... are calls *)
(* into scikit-fuzzy.  They are modelled by what that library does at the  *)
(* call sites of fuzzy.py.  interp_membership differs between releases for *)
(* a value outside the sampled domain (IndexError in the releases without  *)
(* the zero_outside_x parameter, 0.0 in the releases with it); the build   *)
(* in use is the variable zero_outside_x, chosen once.                     *)
(***************************************************************************)
EXTENDS Integers, Sequences, FiniteSets, TLC

VARIABLES
    error, delta_e, mf_types, f_ssets, io_ranges,   \* the object's fields
    inputs, b, muval_e, muval_de, f_mat, strength,  \* locals of run() as the call ends
    output, aggregated, out_final,
    returned,          \* what the last run() handed back to its caller
    status,            \* how the last run() ended: exception and raising function
    zero_outside_x,    \* the scikit-fuzzy build: interp_membership zeroes outside x
    ref                \* <<>>, or one remembered earlier run() (SpecStateless only)

fields == <<error, delta_e, mf_types, f_ssets, io_ranges>>
locals == <<inputs, b, muval_e, muval_de, f_mat, strength, output, aggregated, out_final>>
vars == <<error, delta_e, mf_types, f_ssets, io_ranges,
          inputs, b, muval_e, muval_de, f_mat, strength, output, aggregated, out_final,
          returned, status, zero_outside_x, ref>>

-----------------------------------------------------------------------------
(* Bounds of the model *)

\* crisp inputs range over k * CrispStep halves, k in -MaxK..MaxK
MaxK == 5

\* SpecMatrix: the degrees of the input vectors take MaxLevel + 1 levels from 0 to 1
MaxLevel == 2

\* SpecRuleBase: matrices with at most MaxNonzero nonzero cells
MaxNonzero == 2

-----------------------------------------------------------------------------
(* Arithmetic helpers *)

One == 2 * 60

CrispStep == 4 + 1

Min2(p, q) == IF p <= q THEN p ELSE q

Abs(n) == IF n < 0 THEN -n ELSE n

SetMax(S) == CHOOSE m \in S : \A n \in S : n <= m

\* A local assignment v = e followed by F: e is evaluated once, F sees its value
Bind(e, F(_)) == CHOOSE r \in {F(v) : v \in {e}} : TRUE

RECURSIVE SeqSum(_)
SeqSum(s) == IF s = <<>> THEN 0 ELSE Head(s) + SeqSum(Tail(s))

\* One * p / q rounded to the nearest even unit, q > 0
Frac(p, q) == 2 * ((60 * p * 2 + q) \div (2 * q))

-----------------------------------------------------------------------------
(* np.arange(var[0], var[1]+1, 1), run() line 75 *)

arange(lo, hi) == [k \in 1..(IF hi >= lo THEN hi - lo + 1 ELSE 0) |-> lo + k - 1]

-----------------------------------------------------------------------------
(* The twelve membership-function families, as membership_f calls them *)

Families == {"trimf", "dsigmf", "gauss2mf", "gaussmf", "gbellmf", "piecemf",
             "pimf", "psigmf", "sigmf", "smf", "trapmf", "zmf"}

\* the order in which the dict display of membership_f evaluates its values
FamilyOrder == <<"trimf", "dsigmf", "gauss2mf", "gaussmf", "gbellmf", "piecemf",
                 "pimf", "psigmf", "sigmf", "smf", "trapmf", "zmf">>

\* default arguments of membership_f
mf_a == 1
mf_b == 2
mf_c == 3
mf_d == 4
mf_abcd == <<0, 0, 0, 0>>

\* exp(-m^2 / (2 sigma^2)), sigma = 2, sampled at integer distance m
Gauss8(m) ==
    CASE m = 0 -> 120 [] m = 1 -> 106 [] m = 2 -> 72 [] m = 3 -> 38
      [] m = 4 -> 16 [] m = 5 -> 6 [] m = 6 -> 2 [] OTHER -> 0

\* exp(-m^2 / (2 sigma^2)), sigma = 4, sampled at integer distance m
Gauss32(m) ==
    CASE m = 0 -> 120 [] m = 1 -> 116 [] m = 2 -> 106 [] m = 3 -> 92
      [] m = 4 -> 72 [] m = 5 -> 54 [] m = 6 -> 38 [] m = 7 -> 26
      [] m = 8 -> 16 [] m = 9 -> 10 [] m = 10 -> 6 [] m = 11 -> 2
      [] m = 12 -> 2 [] OTHER -> 0

\* 1 / (1 + exp(-2 t)) at integer t
Sig2(t) ==
    CASE t <= -3 -> 0 [] t = -2 -> 2 [] t = -1 -> 14 [] t = 0 -> 60
      [] t = 1 -> 106 [] t = 2 -> 118 [] OTHER -> 120

\* 1 / (1 + exp(-4 t)) at integer t
Sig4(t) ==
    CASE t <= -2 -> 0 [] t = -1 -> 2 [] t = 0 -> 60 [] t = 1 -> 118
      [] OTHER -> 120

\* fuzz.gaussmf(x, mean, sigma) for the sigmas membership_f can pass
gaussmf_at(xi, mean, sigma) ==
    IF sigma = 2 THEN Gauss8(Abs(xi - mean)) ELSE Gauss32(Abs(xi - mean))

\* fuzz.sigmf(x, b, c) = 1 / (1 + exp(-c (x - b))) for the slopes membership_f can pass
sigmf_at(xi, bb, cc) == IF cc = 2 THEN Sig2(xi - bb) ELSE Sig4(xi - bb)

\* A trimf that leaves out the assignment y[x == b] = 1
trimf_at_no_peak(xi, abc) ==
    LET a0 == abc[1]
        b0 == abc[2]
        c0 == abc[3]
    IN  IF a0 # b0 /\ a0 < xi /\ xi < b0 THEN Frac(xi - a0, b0 - a0)
        ELSE IF b0 # c0 /\ b0 < xi /\ xi < c0 THEN Frac(c0 - xi, c0 - b0)
        ELSE 0

\* fuzz.trimf(x, abc) at one sample; abc has three elements a <= b <= c
trimf_at(xi, abc) ==
    LET a0 == abc[1]
        b0 == abc[2]
        c0 == abc[3]
    IN  IF xi = b0 THEN One
        ELSE IF a0 # b0 /\ a0 < xi /\ xi < b0 THEN Frac(xi - a0, b0 - a0)
        ELSE IF b0 # c0 /\ b0 < xi /\ xi < c0 THEN Frac(c0 - xi, c0 - b0)
        ELSE 0

\* fuzz.trimf asserts len(abc) == 3 and a <= b <= c
trimf_raises(abc) ==
    \/ Len(abc) # 3
    \/ ~(abc[1] <= abc[2] /\ abc[2] <= abc[3])

\* fuzz.trapmf(x, abcd) at one sample: ones, then trimf(a,b,b) up to b, then
\* trimf(c,c,d) from c on, then zero below a and above d
trapmf_at(xi, abcd) ==
    LET a0 == abcd[1]
        b0 == abcd[2]
        c0 == abcd[3]
        d0 == abcd[4]
    IN  IF xi < a0 \/ xi > d0 THEN 0
        ELSE IF xi >= c0 THEN trimf_at(xi, <<c0, c0, d0>>)
        ELSE IF xi <= b0 THEN trimf_at(xi, <<a0, b0, b0>>)
        ELSE One

\* fuzz.piecemf(x, abc) replaces c by x.max() and asserts a <= b <= c
piecemf_raises(x, abc) ==
    \/ Len(abc) # 3
    \/ x = <<>>
    \/ ~(abc[1] <= abc[2] /\ abc[2] <= x[Len(x)])

\* fuzz.piecemf(x, abc) at one sample: 0 up to a, b(x-a)/(c(b-a)) up to b, x/c up to c = x.max()
piecemf_at(xi, xmax, abc) ==
    LET a0 == abc[1]
        b0 == abc[2]
    IN  IF xi <= a0 THEN 0
        ELSE IF xi < b0 THEN Frac(b0 * (xi - a0), xmax * (b0 - a0))
        ELSE Frac(xi, xmax)

\* fuzz.smf(x, a, b) at an integer sample, b = a + 1: 0 up to a, 1 from b on
smf_at(xi, a0, b0) == IF xi <= a0 THEN 0 ELSE One

\* fuzz.zmf(x, a, b) at an integer sample, b = a + 1: 1 up to a, 0 from b on
zmf_at(xi, a0, b0) == IF xi <= a0 THEN One ELSE 0

\* The argument list membership_f hands to each family: abc is the caller's
\* third positional argument, everything else is a default of line 98.
FamilyArgs(fam, abc) ==
    CASE fam \in {"trimf", "piecemf"} -> abc
      [] fam \in {"dsigmf", "gauss2mf", "pimf", "psigmf"} -> <<mf_a, mf_b, mf_c, mf_d>>
      [] fam \in {"gaussmf", "sigmf", "smf", "zmf"} -> <<mf_a, mf_b>>
      [] fam = "gbellmf" -> <<mf_a, mf_b, mf_c>>
      [] fam = "trapmf" -> mf_abcd

\* Whether the library call of one family raises (AssertionError) on x, args
FamilyRaises(fam, x, args) ==
    CASE fam = "trimf" -> trimf_raises(args)
      [] fam = "piecemf" -> piecemf_raises(x, args)
      [] OTHER -> FALSE

\* The sampled curve one family returns on x, args
FamilyY(fam, x, args) ==
    [k \in 1..Len(x) |->
        LET xi == x[k] IN
        CASE fam = "trimf" -> trimf_at(xi, args)
          [] fam = "dsigmf" ->
                sigmf_at(xi, args[1], args[2]) - sigmf_at(xi, args[3], args[4])
          [] fam = "gauss2mf" ->
                IF xi <= args[1] THEN gaussmf_at(xi, args[1], args[2])
                ELSE IF xi > args[3] THEN gaussmf_at(xi, args[3], args[4])
                ELSE One
          [] fam = "gaussmf" -> gaussmf_at(xi, args[1], args[2])
          [] fam = "gbellmf" ->
                Frac(1, 1 + Abs(xi - args[3]) * Abs(xi - args[3])
                              * Abs(xi - args[3]) * Abs(xi - args[3]))
          [] fam = "piecemf" -> piecemf_at(xi, x[Len(x)], args)
          [] fam = "pimf" ->
                Min2(smf_at(xi, args[1], args[2]), zmf_at(xi, args[3], args[4]))
          [] fam = "psigmf" ->
                2 * ((sigmf_at(xi, args[1], args[2]) * sigmf_at(xi, args[3], args[4]))
                        \div (2 * One))
          [] fam = "sigmf" -> sigmf_at(xi, args[1], args[2])
          [] fam = "smf" -> smf_at(xi, args[1], args[2])
          [] fam = "trapmf" -> trapmf_at(xi, args)
          [] fam = "zmf" -> zmf_at(xi, args[1], args[2])]

\* A membership_f that unpacks abc destructively (abc.pop(0))
membership_f_pops(mf, x, abc) == IF abc = <<>> THEN abc ELSE Tail(abc)

\* membership_f receives abc by reference (the term's own list inside f_ssets):
\* what that list holds after the call.  No family writes into it.
membership_f_leaves(mf, x, abc) == abc

\* The first family, in evaluation order, whose call raises; "" when none does
FirstRaising(x, abc) ==
    LET bad == {k \in 1..Len(FamilyOrder) :
                    FamilyRaises(FamilyOrder[k], x, FamilyArgs(FamilyOrder[k], abc))}
    IN  IF bad = {} THEN ""
        ELSE FamilyOrder[CHOOSE k \in bad : \A j \in bad : k <= j]

\* membership_f(mf, x, abc): builds the whole dict (all twelve calls), then looks mf up
membership_f(mf, x, abc) ==
    Bind(FirstRaising(x, abc), LAMBDA raising :
        IF raising # ""
            THEN [exc |-> "AssertionError", where |-> raising, y |-> <<>>]
        ELSE IF mf \notin Families
            THEN [exc |-> "KeyError", where |-> "membership_f", y |-> <<>>]
        ELSE [exc |-> "None", where |-> "", y |-> FamilyY(mf, x, FamilyArgs(mf, abc))])

-----------------------------------------------------------------------------
(* fuzzify, lines 121-130 *)

\* fuzz.interp_membership(x, xmf, xx), xx in halves.  Inside the sampled domain it
\* interpolates linearly between the two neighbouring samples.  Outside it, the
\* build with zero_outside_x returns 0.0 and the build without it indexes an
\* empty selection (x[x <= xx][-1]) and raises IndexError.
interp_membership(x, xmf, xx) ==
    IF x = <<>> \/ xx < 2 * x[1] \/ xx > 2 * x[Len(x)]
        THEN IF x # <<>> /\ zero_outside_x
                THEN [exc |-> "None", where |-> "", v |-> 0]
                ELSE [exc |-> "IndexError", where |-> "interp_membership", v |-> 0]
    ELSE LET i1 == (xx - 2 * x[1]) \div 2 + 1
         IN  IF xx % 2 = 0
                THEN [exc |-> "None", where |-> "", v |-> xmf[i1]]
                ELSE [exc |-> "None", where |-> "",
                      v |-> xmf[i1] + (xmf[i1 + 1] - xmf[i1]) \div 2]

\* the first failed call of a list of results, or the list itself under field f
FirstFailure(r, f) ==
    Bind({k \in 1..Len(r) : r[k].exc # "None"}, LAMBDA bad :
        IF bad # {}
            THEN LET k0 == CHOOSE k \in bad : \A j \in bad : k <= j
                 IN  [exc |-> r[k0].exc, where |-> r[k0].where, val |-> <<>>]
            ELSE [exc |-> "None", where |-> "", val |-> [k \in 1..Len(r) |-> r[k][f]]])

fuzzify(Input, y, crisp_val) ==
    Bind([k \in 1..Len(y) |-> interp_membership(Input, y[k], crisp_val)], LAMBDA r :
        Bind(FirstFailure(r, "v"), LAMBDA ff :
            [exc |-> ff.exc, where |-> ff.where, f |-> ff.val]))

-----------------------------------------------------------------------------
(* fuzzy_matrix, lines 132-138: one row per delta-error degree, one column per
   error degree *)

\* A fuzzy_matrix with the two comprehensions exchanged
fuzzy_matrix_transposed(mu_e, mu_de) ==
    [row \in 1..Len(mu_e) |-> [col \in 1..Len(mu_de) |-> Min2(mu_e[row], mu_de[col])]]

fuzzy_matrix(mu_e, mu_de) ==
    [row \in 1..Len(mu_de) |-> [col \in 1..Len(mu_e) |-> Min2(mu_e[col], mu_de[row])]]

-----------------------------------------------------------------------------
(* rule_base, lines 141-168 *)

\* f_mat[i][j] with the program's 0-based indices
Cell(fm, i, j) == fm[i + 1][j + 1]

\* A rule base whose NS rule reads f_mat[0][4] for f_mat[4][0]: the cell of PS
rule_strengths_swapped(fm) ==
    << SetMax({Cell(fm, 0, 0), Cell(fm, 0, 1), Cell(fm, 1, 0), Cell(fm, 1, 1),
               Cell(fm, 2, 0), Cell(fm, 3, 0)}),
       SetMax({Cell(fm, 0, 2), Cell(fm, 1, 2), Cell(fm, 2, 1), Cell(fm, 3, 1),
               Cell(fm, 0, 4)}),
       SetMax({Cell(fm, 0, 3), Cell(fm, 2, 2), Cell(fm, 4, 1)}),
       SetMax({Cell(fm, 0, 4), Cell(fm, 1, 3), Cell(fm, 2, 3), Cell(fm, 3, 2),
               Cell(fm, 4, 2)}),
       SetMax({Cell(fm, 1, 4), Cell(fm, 2, 4), Cell(fm, 3, 4), Cell(fm, 3, 3),
               Cell(fm, 4, 3), Cell(fm, 4, 4)}) >>

\* lines 157, 159, 161, 163, 165: the locals NM, NS, Z, PS, PM
rule_strengths(fm) ==
    << SetMax({Cell(fm, 0, 0), Cell(fm, 0, 1), Cell(fm, 1, 0), Cell(fm, 1, 1),
               Cell(fm, 2, 0), Cell(fm, 3, 0)}),
       SetMax({Cell(fm, 0, 2), Cell(fm, 1, 2), Cell(fm, 2, 1), Cell(fm, 3, 1),
               Cell(fm, 4, 0)}),
       SetMax({Cell(fm, 0, 3), Cell(fm, 2, 2), Cell(fm, 4, 1)}),
       SetMax({Cell(fm, 0, 4), Cell(fm, 1, 3), Cell(fm, 2, 3), Cell(fm, 3, 2),
               Cell(fm, 4, 2)}),
       SetMax({Cell(fm, 1, 4), Cell(fm, 2, 4), Cell(fm, 3, 4), Cell(fm, 3, 3),
               Cell(fm, 4, 3), Cell(fm, 4, 4)}) >>

\* np.fmin(scalar, curve)
fmin(s, y) == [k \in 1..Len(y) |-> Min2(s, y[k])]

\* lines 158, 160, 162, 164, 166: b[2][t] = np.fmin(T, b[2][t]) rebinds the first
\* five entries of the list b[2]; later entries stay
clip(b2, st) == [t \in 1..Len(b2) |-> IF t <= 5 THEN fmin(st[t], b2[t]) ELSE b2[t]]

\* rule_base(b, f_mat): b after the call, the returned list (b[2] itself) and the
\* strengths; IndexError when the matrix or b[2] has fewer than five entries
rule_base(bb, fm) ==
    IF Len(fm) < 5 \/ Len(fm[1]) < 5 \/ Len(bb[3]) < 5
        THEN [exc |-> "IndexError", where |-> "rule_base", b |-> bb, ret |-> <<>>,
              strength |-> <<>>]
    ELSE Bind(rule_strengths(fm), LAMBDA st :
         Bind(clip(bb[3], st), LAMBDA clipped :
             [exc |-> "None", where |-> "", b |-> [bb EXCEPT ![3] = clipped],
              ret |-> clipped, strength |-> st]))

-----------------------------------------------------------------------------
(* run(), lines 75-96 *)

\* np.fmax over output[0..4], line 91
fmax5(out) ==
    [k \in 1..Len(out[1]) |-> SetMax({out[t][k] : t \in 1..5})]

\* A centroid without the check of the total area: 0 / eps = 0.0
defuzz_unguarded(x, mfx) ==
    IF Len(x) # Len(mfx)
        THEN [exc |-> "AssertionError", where |-> "defuzz", v |-> <<>>]
    ELSE IF SeqSum(mfx) = 0
        THEN [exc |-> "None", where |-> "", v |-> <<0, 1>>]
        ELSE [exc |-> "None", where |-> "",
              v |-> <<SeqSum([k \in 1..Len(x) |-> x[k] * mfx[k]]), SeqSum(mfx)>>]

\* fuzz.defuzz(x, mfx, 'centroid'): asserts that the total area mfx.sum() is not
\* zero, then returns sum(x * mfx) / sum(mfx), here the pair of the two sums
defuzz(x, mfx) ==
    IF Len(x) # Len(mfx) \/ SeqSum(mfx) = 0
        THEN [exc |-> "AssertionError", where |-> "defuzz", v |-> <<>>]
        ELSE [exc |-> "None", where |-> "",
              v |-> <<SeqSum([k \in 1..Len(x) |-> x[k] * mfx[k]]), SeqSum(mfx)>>]

\* line 75
run_inputs(ranges) == [i \in 1..Len(ranges) |-> arange(ranges[i][1], ranges[i][2])]

\* the list comprehension of line 78 for variable i (1..3): every term's
\* membership_f result, or the IndexError of a missing f_ssets / mf_types / inputs entry
var_curves(i, inp) ==
    IF i > Len(f_ssets)
        THEN [exc |-> "IndexError", where |-> "run", ys |-> <<>>]
    ELSE IF f_ssets[i] = <<>>
        THEN [exc |-> "None", where |-> "", ys |-> <<>>]
    ELSE IF i > Len(mf_types) \/ i > Len(inp)
        THEN [exc |-> "IndexError", where |-> "run", ys |-> <<>>]
    ELSE Bind([t \in 1..Len(f_ssets[i]) |->
                    membership_f(mf_types[i], inp[i], f_ssets[i][t])], LAMBDA r :
         Bind(FirstFailure(r, "y"), LAMBDA ff :
             [exc |-> ff.exc, where |-> ff.where, ys |-> ff.val]))

\* lines 76-78: b starts as a new empty list whatever the previous call left, and
\* gets one list of curves per variable; an exception leaves b with the
\* variables appended so far
run_b(previous, inp) ==
    Bind([i \in 1..3 |-> var_curves(i, inp)], LAMBDA r :
        Bind({i \in 1..3 : r[i].exc # "None"}, LAMBDA bad :
            IF bad # {}
                THEN LET i0 == CHOOSE i \in bad : \A j \in bad : i <= j
                     IN  [exc |-> r[i0].exc, where |-> r[i0].where,
                          b |-> [i \in 1..(i0 - 1) |-> r[i].ys]]
                ELSE [exc |-> "None", where |-> "", b |-> [i \in 1..3 |-> r[i].ys]]))

\* f_ssets after the membership_f calls of line 78, which are handed its lists
run_leaves(inp) ==
    [i \in 1..Len(f_ssets) |->
        [t \in 1..Len(f_ssets[i]) |->
            IF i <= 3 THEN membership_f_leaves(mf_types[i], inp[i], f_ssets[i][t])
            ELSE f_ssets[i][t]]]

\* the frame of run() before any local is bound
Unbound ==
    [inputs |-> <<>>, b |-> <<>>, muval_e |-> <<>>, muval_de |-> <<>>, f_mat |-> <<>>,
     strength |-> <<>>, output |-> <<>>, aggregated |-> <<>>, out_final |-> <<>>,
     returned |-> <<>>, status |-> [exc |-> "None", where |-> ""],
     f_ssets |-> f_ssets]

Raised(frame, r) == [frame EXCEPT !.status = [exc |-> r.exc, where |-> r.where]]

\* lines 75-78: inputs and b
run_curves(fr) ==
    Bind(run_inputs(io_ranges), LAMBDA inp :
        Bind(run_b(b, inp), LAMBDA rb :
            Raised([fr EXCEPT !.inputs = inp, !.b = rb.b,
                              !.f_ssets = IF rb.exc = "None" THEN run_leaves(inp)
                                          ELSE f_ssets],
                   rb)))

\* line 82: muval_e
run_muval_e(fr) ==
    IF fr.status.exc # "None" THEN fr ELSE
    Bind(fuzzify(fr.inputs[1], fr.b[1], error), LAMBDA fe :
        Raised([fr EXCEPT !.muval_e = fe.f], fe))

\* line 83: muval_de
run_muval_de(fr) ==
    IF fr.status.exc # "None" THEN fr ELSE
    Bind(fuzzify(fr.inputs[2], fr.b[2], delta_e), LAMBDA fd :
        Raised([fr EXCEPT !.muval_de = fd.f], fd))

\* line 88: f_mat
run_f_mat(fr) ==
    IF fr.status.exc # "None" THEN fr ELSE
    [fr EXCEPT !.f_mat = fuzzy_matrix(fr.muval_e, fr.muval_de)]

\* line 90: output = rule_base(b, f_mat), which also rebinds the entries of b[2]
run_output(fr) ==
    IF fr.status.exc # "None" THEN fr ELSE
    Bind(rule_base(fr.b, fr.f_mat), LAMBDA rr :
        Raised([fr EXCEPT !.b = rr.b, !.strength = rr.strength, !.output = rr.ret], rr))

\* line 91: aggregated
run_aggregated(fr) ==
    IF fr.status.exc # "None" THEN fr ELSE
    [fr EXCEPT !.aggregated = fmax5(fr.output)]

\* line 92: out_final
run_out_final(fr) ==
    IF fr.status.exc # "None" THEN fr ELSE
    Bind(defuzz(fr.inputs[3], fr.aggregated), LAMBDA dz :
        Raised([fr EXCEPT !.out_final = dz.v], dz))

\* lines 93-96: the result is printed and plotted; there is no return statement,
\* so the caller gets None
run_return(fr) == [fr EXCEPT !.returned = <<>>]

\* run(): the locals at the point where the call ends, how it ended, and what it
\* handed back
run ==
    Bind(run_curves(Unbound), LAMBDA f1 :
    Bind(run_muval_e(f1), LAMBDA f2 :
    Bind(run_muval_de(f2), LAMBDA f3 :
    Bind(run_f_mat(f3), LAMBDA f4 :
    Bind(run_output(f4), LAMBDA f5 :
    Bind(run_aggregated(f5), LAMBDA f6 :
    Bind(run_out_final(f6), LAMBDA f7 :
        run_return(f7))))))))

-----------------------------------------------------------------------------
(* Configurations the host can pass to Fuzzy(mf_types, f_ssets), and the ranges
   it can assign to io_ranges *)

\* five symmetric triangles over [-10, 10]
Tri10 == << <<-10, -10, -5>>, <<-10, -5, 0>>, <<-5, 0, 5>>, <<0, 5, 10>>, <<5, 10, 10>> >>

\* five symmetric triangles over [-5, 5]
Tri5 == << <<-5, -4, -2>>, <<-4, -2, 0>>, <<-2, 0, 2>>, <<0, 2, 4>>, <<2, 4, 5>> >>

\* five narrow triangles over [-10, 10] that leave gaps between the terms
Gap10 == << <<-10, -9, -8>>, <<-6, -5, -4>>, <<-1, 0, 1>>, <<4, 5, 6>>, <<8, 9, 10>> >>

\* the positive-medium peak lies beyond the domain maximum
Wide10 == << <<-10, -10, -5>>, <<-10, -5, 0>>, <<-5, 0, 5>>, <<0, 5, 10>>, <<5, 12, 14>> >>

\* mean and sigma of five Gaussians
Gauss2 == << <<-10, 2>>, <<-5, 2>>, <<0, 2>>, <<5, 2>>, <<10, 2>> >>

AllTri == <<"trimf", "trimf", "trimf">>

Configs ==
    { [mf_types |-> AllTri, f_ssets |-> <<Tri10, Tri10, Tri5>>],
      [mf_types |-> AllTri, f_ssets |-> <<Gap10, Gap10, Tri5>>],
      [mf_types |-> AllTri, f_ssets |-> <<Tri10, Tri10, SubSeq(Tri5, 1, 4)>>],
      [mf_types |-> AllTri, f_ssets |-> <<Tri10, Tri10, [Tri5 EXCEPT ![3] = <<-2, 2>>]>>],
      [mf_types |-> AllTri, f_ssets |-> <<Wide10, Tri10, Tri5>>],
      [mf_types |-> <<"gaussmf", "gaussmf", "trimf">>, f_ssets |-> <<Gauss2, Gauss2, Tri5>>],
      [mf_types |-> <<"gaussmf", "trimf", "trimf">>, f_ssets |-> <<Tri10, Tri10, Tri5>>],
      [mf_types |-> <<"trimf", "trimf", "bellmf">>, f_ssets |-> <<Tri10, Tri10, Tri5>>] }

Ranges10 == << <<-10, 10>>, <<-10, 10>>, <<-5, 5>> >>

RangeSets == { Ranges10, SubSeq(Ranges10, 1, 2), <<>> }

CrispValues == {k * CrispStep : k \in -MaxK..MaxK}

NotRun == [exc |-> "NotRun", where |-> ""]

-----------------------------------------------------------------------------
(* The controller: __init__ (lines 33-46), the host's assignments to its
   attributes, and run() *)

\* __init__(mf_types, f_ssets): stores its arguments unchecked
Init ==
    /\ error = 0
    /\ delta_e = 0
    /\ \E cfg \in Configs : mf_types = cfg.mf_types /\ f_ssets = cfg.f_ssets
    /\ io_ranges = <<>>
    /\ inputs = <<>> /\ b = <<>> /\ muval_e = <<>> /\ muval_de = <<>> /\ f_mat = <<>>
    /\ strength = <<>> /\ output = <<>> /\ aggregated = <<>> /\ out_final = <<>>
    /\ returned = <<>>
    /\ status = NotRun
    /\ zero_outside_x \in BOOLEAN
    /\ ref = <<>>

\* the frame of a finished run() is gone when the host acts again
Forget ==
    /\ inputs' = <<>> /\ b' = <<>> /\ muval_e' = <<>> /\ muval_de' = <<>>
    /\ f_mat' = <<>> /\ strength' = <<>> /\ output' = <<>> /\ aggregated' = <<>>
    /\ out_final' = <<>> /\ returned' = <<>> /\ status' = NotRun

\* the host sets the current error
SetError(v) ==
    /\ error' = v
    /\ Forget
    /\ UNCHANGED <<delta_e, mf_types, f_ssets, io_ranges, zero_outside_x, ref>>

\* the host sets the current delta-error
SetDeltaE(v) ==
    /\ delta_e' = v
    /\ Forget
    /\ UNCHANGED <<error, mf_types, f_ssets, io_ranges, zero_outside_x, ref>>

\* the host sets the ranges of the three variables
SetRanges(r) ==
    /\ io_ranges' = r
    /\ Forget
    /\ UNCHANGED <<error, delta_e, mf_types, f_ssets, zero_outside_x, ref>>

\* one call of run(): the locals as the call ends, its outcome, and the fields,
\* of which run() assigns none
RunCall ==
    \E fr \in {run} :
        /\ inputs' = fr.inputs
        /\ b' = fr.b
        /\ muval_e' = fr.muval_e
        /\ muval_de' = fr.muval_de
        /\ f_mat' = fr.f_mat
        /\ strength' = fr.strength
        /\ output' = fr.output
        /\ aggregated' = fr.aggregated
        /\ out_final' = fr.out_final
        /\ returned' = fr.returned
        /\ status' = fr.status
        /\ f_ssets' = fr.f_ssets
        /\ UNCHANGED <<error, delta_e, mf_types, io_ranges, zero_outside_x>>

\* run(), with the bookkeeping of the remembered call: a later call on other
\* field values marks it as followed by other calls
Run ==
    /\ RunCall
    /\ ref' = IF ref # <<>> /\ fields # ref[1].before
                THEN <<[ref[1] EXCEPT !.between = TRUE]>>
                ELSE ref

\* run(), remembered: the fields before and after the call and its outcome
RunRemembered ==
    /\ ref = <<>>
    /\ RunCall
    /\ ref' = <<[before |-> fields, after |-> fields',
                 outcome |-> <<status', out_final', returned'>>, between |-> FALSE]>>

Next ==
    \/ \E v \in CrispValues : SetError(v)
    \/ \E v \in CrispValues : SetDeltaE(v)
    \/ \E r \in RangeSets : SetRanges(r)
    \/ Run

Spec == Init /\ [][Next]_vars

-----------------------------------------------------------------------------
(* fuzzy_matrix as a pure function: all pairs of five-degree vectors *)

Levels == {(l * One) \div MaxLevel : l \in 0..MaxLevel}

InitMatrix ==
    /\ error = 0
    /\ delta_e = 0
    /\ mf_types = AllTri
    /\ f_ssets = <<Tri10, Tri10, Tri5>>
    /\ io_ranges = Ranges10
    /\ inputs = <<>> /\ b = <<>>
    /\ muval_e \in [1..5 -> Levels]
    /\ muval_de \in [1..5 -> Levels]
    /\ f_mat = <<>>
    /\ strength = <<>> /\ output = <<>> /\ aggregated = <<>> /\ out_final = <<>>
    /\ returned = <<>>
    /\ status = NotRun
    /\ zero_outside_x = TRUE
    /\ ref = <<>>

FuzzyMatrixCall ==
    /\ f_mat = <<>>
    /\ f_mat' = fuzzy_matrix(muval_e, muval_de)
    /\ UNCHANGED <<fields, inputs, b, muval_e, muval_de, strength, output, aggregated,
                   out_final, returned, status, zero_outside_x, ref>>

NextMatrix == FuzzyMatrixCall

SpecMatrix == InitMatrix /\ [][NextMatrix]_vars

-----------------------------------------------------------------------------
(* rule_base as a pure function: strength matrices with few nonzero cells, and
   the output curves of the symmetric triangles *)

SampleCurves == [i \in 1..3 |-> [t \in 1..5 |->
                    FamilyY("trimf", arange(Ranges10[i][1], Ranges10[i][2]),
                            <<Tri10, Tri10, Tri5>>[i][t])]]

ZeroMatrix == [row \in 1..5 |-> [col \in 1..5 |-> 0]]

Nonzero(fm) == Cardinality({c \in (1..5) \X (1..5) : fm[c[1]][c[2]] # 0})

InitRuleBase ==
    /\ error = 0
    /\ delta_e = 0
    /\ mf_types = AllTri
    /\ f_ssets = <<Tri10, Tri10, Tri5>>
    /\ io_ranges = Ranges10
    /\ inputs = <<>>
    /\ b = SampleCurves
    /\ muval_e = <<>> /\ muval_de = <<>>
    /\ f_mat = ZeroMatrix
    /\ strength = <<>> /\ output = <<>> /\ aggregated = <<>> /\ out_final = <<>>
    /\ returned = <<>>
    /\ status = NotRun
    /\ zero_outside_x = TRUE
    /\ ref = <<>>

\* the caller prepares another matrix and fresh curves
SetCell(row, col, v) ==
    /\ Nonzero([f_mat EXCEPT ![row][col] = v]) <= MaxNonzero
    /\ f_mat' = [f_mat EXCEPT ![row][col] = v]
    /\ b' = SampleCurves
    /\ strength' = <<>>
    /\ output' = <<>>
    /\ UNCHANGED <<fields, inputs, muval_e, muval_de, aggregated, out_final, returned,
                   status, zero_outside_x, ref>>

RuleBaseCall ==
    /\ strength = <<>>
    /\ LET r == rule_base(b, f_mat)
       IN  /\ b' = r.b
           /\ strength' = r.strength
           /\ output' = r.ret
    /\ UNCHANGED <<fields, inputs, muval_e, muval_de, f_mat, aggregated, out_final,
                   returned, status, zero_outside_x, ref>>

NextRuleBase ==
    \/ \E row \in 1..5, col \in 1..5, v \in {0, One \div 2, One} : SetCell(row, col, v)
    \/ RuleBaseCall

SpecRuleBase == InitRuleBase /\ [][NextRuleBase]_vars

-----------------------------------------------------------------------------
(* The controller with one remembered call, on a few crisp values *)

CrispFew == {-5 * CrispStep, 0, 3 * CrispStep}

NextStateless ==
    \/ \E v \in CrispFew : SetError(v)
    \/ \E v \in CrispFew : SetDeltaE(v)
    \/ \E r \in RangeSets : SetRanges(r)
    \/ Run
    \/ RunRemembered

SpecStateless == Init /\ [][NextStateless]_vars

-----------------------------------------------------------------------------
(* Properties *)

Ran == status.exc # "NotRun"

Succeeded == status.exc = "None"

\* a configuration of three ranges and five terms for each of three variables
FiveTermsThreeRanges ==
    /\ Len(io_ranges) = 3
    /\ Len(f_ssets) = 3
    /\ \A i \in 1..3 : Len(f_ssets[i]) = 5

\* C1: for a controller with three ranges and five terms per variable, a run()
\* that gets through defuzzification hands the defuzzified scalar back to its caller
C1_RunReturnsScalar ==
    (Succeeded /\ FiveTermsThreeRanges) => (out_final # <<>> /\ returned = out_final)

\* the (e, d) cells the rule table of the specification lists for each output term
TableCells ==
    << { <<0, 0>>, <<1, 0>>, <<0, 1>>, <<1, 1>>, <<0, 2>>, <<0, 3>> },
       { <<2, 0>>, <<2, 1>>, <<1, 2>>, <<1, 3>>, <<0, 4>> },
       { <<3, 0>>, <<2, 2>>, <<1, 4>> },
       { <<4, 0>>, <<3, 1>>, <<3, 2>>, <<2, 3>>, <<2, 4>> },
       { <<4, 1>>, <<4, 2>>, <<4, 3>>, <<3, 3>>, <<3, 4>>, <<4, 4>> } >>

\* the strength the table gives output term t on the matrix fm: the maximum of
\* fm[d][e] over the listed (e, d) cells
TableStrength(fm, t) == SetMax({fm[c[2] + 1][c[1] + 1] : c \in TableCells[t]})

\* C2: the strength rule_base clips each output term with is the maximum of
\* strength[d][e] over the (e, d) cells the table lists for the term, and the five
\* cell sets partition the 25 cells
C2_RuleTable ==
    strength # <<>> =>
        /\ \A t \in 1..5 :
            /\ strength[t] = TableStrength(f_mat, t)
            /\ output[t] = [k \in 1..Len(SampleCurves[3][t]) |->
                                Min2(TableStrength(f_mat, t), SampleCurves[3][t][k])]
        /\ UNION {TableCells[t] : t \in 1..5} = (0..4) \X (0..4)
        /\ \A t, u \in 1..5 : t # u => TableCells[t] \cap TableCells[u] = {}

\* C2 witness: rule_base has run on a matrix with two different nonzero cells
C2_Witness ==
    /\ strength # <<>>
    /\ f_mat[5][1] = One
    /\ f_mat[1][5] = One \div 2
    /\ strength = <<0, One, 0, One \div 2, 0>>

\* C3: fuzzy_matrix returns a 5x5 matrix, rows by delta-error term and columns by
\* error term, each cell the smaller of its two input degrees, hence in [0,1]
C3_MatrixIsMin ==
    f_mat # <<>> =>
        /\ Len(f_mat) = 5
        /\ \A d \in 1..5 :
            /\ Len(f_mat[d]) = 5
            /\ \A e \in 1..5 :
                /\ f_mat[d][e] \in {muval_e[e], muval_de[d]}
                /\ f_mat[d][e] <= muval_e[e]
                /\ f_mat[d][e] <= muval_de[d]
                /\ f_mat[d][e] \in 0..One

\* C3 witness: a matrix built from vectors whose transposition would differ
C3_Witness ==
    /\ f_mat # <<>>
    /\ muval_e = <<One, 0, 0, 0, 0>>
    /\ muval_de = <<One \div MaxLevel, One, 0, 0, 0>>
    /\ f_mat[2][1] = One
    /\ f_mat[1][2] = 0

\* the aggregated output set is bound and zero at every sample
Degenerate == aggregated # <<>> /\ \A k \in 1..Len(aggregated) : aggregated[k] = 0

Arity(fam) ==
    CASE fam \in {"trimf", "piecemf", "gbellmf"} -> 3
      [] fam \in {"trapmf", "dsigmf", "gauss2mf", "pimf", "psigmf"} -> 4
      [] OTHER -> 2

\* a configuration error: a missing range, a variable without five terms, or a
\* term whose parameter count is not its family's
ConfigError ==
    \/ Len(io_ranges) # 3
    \/ \E i \in 1..3 : Len(f_ssets[i]) # 5
    \/ \E i \in 1..3 : \E t \in 1..Len(f_ssets[i]) :
            mf_types[i] \in Families /\ Len(f_ssets[i][t]) # Arity(mf_types[i])

\* C5: no controller exists whose configuration is in error and whose failure
\* occurs inside run(): such a configuration is rejected at construction
C5_RejectedAtConstruction == ~(ConfigError /\ Ran /\ ~Succeeded)

\* C6: a term's curve depends on the selected family and the term's configured
\* parameters only: the selected family is evaluated on the configured parameters,
\* and no family that was not selected makes the evaluation fail
C6_SelectedFamilyOnly ==
    /\ status.where \in Families => \E i \in 1..3 : mf_types[i] = status.where
    /\ Len(b) = 3 =>
        \A i \in 1..3 : \A t \in 1..Len(f_ssets[i]) :
            FamilyArgs(mf_types[i], f_ssets[i][t]) = f_ssets[i][t]

\* the degrees a crisp value outside the domain must get: each curve's degree at
\* the first sample below the minimum, at the last sample above the maximum
Clamped(x, crisp, ys, mu) ==
    /\ Len(mu) = Len(ys)
    /\ crisp < 2 * x[1] => \A k \in 1..Len(ys) : mu[k] = ys[k][1]
    /\ crisp > 2 * x[Len(x)] => \A k \in 1..Len(ys) : mu[k] = ys[k][Len(x)]

\* C7: fuzzify returns one degree per curve, a crisp value outside the domain
\* gets each curve's degree at the nearest boundary sample, and the call does not
\* fail; the same for error and delta-error
C7_ClampsOutside ==
    /\ status.where # "interp_membership"
    /\ muval_e # <<>> => Clamped(inputs[1], error, b[1], muval_e)
    /\ muval_de # <<>> => Clamped(inputs[2], delta_e, b[2], muval_de)

OnlyZ == <<0, 0, One, 0, 0>>

\* C8: symmetric triangles over [-10,10], [-10,10], [-5,5] and error = delta_e = 0:
\* both inputs fuzzify to 1 on Z and 0 elsewhere, (Z,Z) = 1 is the only nonzero
\* cell, only output term Z has strength 1, and the defuzzified result is 0
C8_ZeroScenario ==
    ( /\ Ran
      /\ mf_types = AllTri
      /\ f_ssets = <<Tri10, Tri10, Tri5>>
      /\ io_ranges = Ranges10
      /\ error = 0
      /\ delta_e = 0 )
    =>  /\ Succeeded
        /\ muval_e = OnlyZ
        /\ muval_de = OnlyZ
        /\ f_mat = [ZeroMatrix EXCEPT ![3][3] = One]
        /\ strength = OnlyZ
        /\ out_final[1] = 0
        /\ out_final[2] > 0

\* C8 witness: run() has ended in that scenario
C8_Witness ==
    /\ Succeeded
    /\ mf_types = AllTri
    /\ f_ssets = <<Tri10, Tri10, Tri5>>
    /\ io_ranges = Ranges10
    /\ error = 0
    /\ delta_e = 0
    /\ out_final = <<0, SeqSum(aggregated)>>

Unclipped == run_b(<<>>, inputs).b[3]

\* C10: when run() has clipped the output curves, b[2] still holds the curves
\* as membership_f computed them, apart from the clipped ones in output
C10_CurvesKept == output # <<>> => b[3] = Unclipped

====
